---- MODULE Spec2Model ----
(***************************************************************************)
(* Model of the batch pipeline of src/src/openscad.cc: the render-mode     *)
(* and output-option handling of main() and cmdline(), which selects the   *)
(* output format from the destination suffix, loads and instantiates the   *)
(* script, evaluates it as the format requires and writes the output and   *)
(* the dependency file.                                                    *)
(*                                                                         *)
(* Strings that the code inspects character by character (the output       *)
(* suffix) are sequences of ASCII codes.  External collaborators (parser,  *)
(* geometry kernel, exporters, the file system) are nondeterministic:      *)
(* every call is recorded in `log` together with the process current       *)
(* directory at the time of the call and its outcome.                      *)
(***************************************************************************)
EXTENDS Integers, Sequences, FiniteSets

VARIABLES
  pc,               \* position in main()/cmdline()
  opt_render,       \* vm.count("render") > 0
  opt_preview,      \* value of --preview: "none" (absent), "throwntogether", "opencsg"
  out_opts,         \* the output options given, a subset of {"o", "s", "x"}
  inputFiles,       \* inputFiles.size()
  script,           \* the node tree that the script instantiates to
  output_ext,       \* boosty::extension_str(output_file), as ASCII codes
  deps_output_file, \* TRUE iff -d was given (pointer is not NULL)
  fparent,          \* parent directory of the script
  renderer,         \* Render::type
  suffix,           \* the lower-cased suffix
  slot,             \* the ten <fmt>_output_file pointers: TRUE = output_file, FALSE = NULL
  cwd,              \* fs::current_path() of the process
  root_geom,        \* "null", "dim2" or "dim3"
  absolute_root_node, \* the synthetic top-level group; 0 = not instantiated
  root_node,        \* the resolved root; 0 = not set
  tree_root,        \* tree.root(); 0 = not set
  freed,            \* the nodes that have been deleted
  rc,               \* value returned by cmdline; -1 while it has not returned
  log               \* calls made so far: [op, cwd, ok]

\* the command line and the script: never assigned after the start
inputs == <<opt_render, opt_preview, output_ext, deps_output_file, fparent,
            out_opts, inputFiles, script>>

\* the node tree of the run
heap == <<absolute_root_node, root_node, tree_root, freed>>

vars == <<pc, inputs, renderer, suffix, slot, cwd, root_geom, heap, rc, log>>

----------------------------------------------------------------------------
(* Bounds *)

\* largest number of upper-case characters in a destination suffix
MaxUpper == 3

\* largest number of nodes of an instantiated script, the top-level group
\* included
MaxNodes == 3

----------------------------------------------------------------------------
(* Suffixes, as ASCII codes *)

Formats == {"stl", "off", "amf", "dxf", "svg", "csg", "png", "ast", "term", "echo"}

SuffixOf ==
  [f \in Formats |->
     CASE f = "stl"  -> <<46, 115, 116, 108>>
       [] f = "off"  -> <<46, 111, 102, 102>>
       [] f = "amf"  -> <<46, 97, 109, 102>>
       [] f = "dxf"  -> <<46, 100, 120, 102>>
       [] f = "svg"  -> <<46, 115, 118, 103>>
       [] f = "csg"  -> <<46, 99, 115, 103>>
       [] f = "png"  -> <<46, 112, 110, 103>>
       [] f = "ast"  -> <<46, 97, 115, 116>>
       [] f = "term" -> <<46, 116, 101, 114, 109>>
       [] f = "echo" -> <<46, 101, 99, 104, 111>>]

\* s with the characters at the positions U in upper case
UpperAt(s, U) ==
  [i \in DOMAIN s |-> IF i \in U /\ s[i] \in 97..122 THEN s[i] - 32 ELSE s[i]]

\* the spellings of the ten suffixes with at most MaxUpper capitals
KnownExts ==
  { UpperAt(SuffixOf[f], U) :
      f \in Formats,
      U \in { V \in SUBSET (2..5) : Cardinality(V) <= MaxUpper } }

\* "", ".txt", ".st", ".stlx", ".ech", ".s[l", ".S@L", "stl"
OtherExts ==
  { <<>>,
    <<46, 116, 120, 116>>,
    <<46, 115, 116>>,
    <<46, 115, 116, 108, 120>>,
    <<46, 101, 99, 104>>,
    <<46, 115, 91, 108>>,
    <<46, 83, 64, 76>>,
    <<115, 116, 108>> }

Exts == KnownExts \cup OtherExts

\* boost::algorithm::to_lower
NoLower(s) == s

to_lower(s) ==
  [i \in DOMAIN s |-> IF s[i] \in 65..90 THEN s[i] + 32 ELSE s[i]]

----------------------------------------------------------------------------
(* Values *)

original_path == "inv"
Dirs == {"inv", "doc"}

Renderers == {"OPENCSG", "CGAL", "THROWNTOGETHER"}
Previews == {"none", "throwntogether", "opencsg"}

NoSlot == [f \in Formats |-> FALSE]

OutputOptions == {"o", "s", "x"}

\* the ten suffixes in lower case, and ".txt"
PlainExts == { SuffixOf[f] : f \in Formats } \cup { <<46, 116, 120, 116>> }

----------------------------------------------------------------------------
(* Node trees.  Node 1 is the synthetic top-level group; parent[n] is the  *)
(* parent of node n (0 for node 1), the children of a node are ordered by  *)
(* their number, and tag[n] is the explicit-root tag of node n.            *)

ScriptsOf(n) ==
  { [parent |-> p, tag |-> t] :
      p \in { q \in [1..n -> 0..n] :
                 q[1] = 0 /\ \A i \in 2..n : q[i] \in 1..(i - 1) },
      t \in { u \in [1..n -> BOOLEAN] : ~u[1] } }

Scripts == UNION { ScriptsOf(n) : n \in 1..MaxNodes }

\* the scripts of MaxNodes top-level statements without children, none
\* tagged or the first one tagged
FlatScripts ==
  { t \in ScriptsOf(MaxNodes) :
      /\ \A i \in 2..MaxNodes : t.parent[i] = 1
      /\ \A i \in 3..MaxNodes : ~t.tag[i] }

NodesOf(t) == DOMAIN t.parent

Children(t, n) == { c \in NodesOf(t) : t.parent[c] = n }

Min(S) == CHOOSE x \in S : \A y \in S : x <= y

\* find_root_tag(n): the first tagged node below n, depth first and left to
\* right; 0 if there is none
RECURSIVE FindTagIn(_, _)
FindTagIn(t, cs) ==
  IF cs = {} THEN 0
  ELSE LET c == Min(cs)
       IN  IF t.tag[c] THEN c
           ELSE LET r == FindTagIn(t, Children(t, c))
                IN  IF r # 0 THEN r ELSE FindTagIn(t, cs \ {c})

find_root_tag(t, n) == FindTagIn(t, Children(t, n))

\* the nodes deleted by `delete n`: n and, through the destructor, its
\* descendants
RECURSIVE Subtree(_, _)
Subtree(t, n) == {n} \cup UNION { Subtree(t, c) : c \in Children(t, n) }

stl_output_file == slot["stl"]
off_output_file == slot["off"]
amf_output_file == slot["amf"]
dxf_output_file == slot["dxf"]
svg_output_file == slot["svg"]
csg_output_file == slot["csg"]
png_output_file == slot["png"]
ast_output_file == slot["ast"]
term_output_file == slot["term"]
echo_output_file == slot["echo"]

\* a call, and a call on a node of the tree
Ev(op, dir, ok) == [op |-> op, cwd |-> dir, ok |-> ok, node |-> 0]

EvN(op, dir, ok, n) == [op |-> op, cwd |-> dir, ok |-> ok, node |-> n]

Return(code) == /\ rc' = code
                /\ pc' = "done"

----------------------------------------------------------------------------
InitRun ==
  /\ pc = "main"
  /\ opt_render \in BOOLEAN
  /\ opt_preview \in Previews
  /\ deps_output_file \in BOOLEAN
  /\ fparent \in Dirs
  /\ renderer = "OPENCSG"
  /\ suffix = <<>>
  /\ slot = NoSlot
  /\ cwd = original_path
  /\ root_geom = "null"
  /\ absolute_root_node = 0
  /\ root_node = 0
  /\ tree_root = 0
  /\ freed = {}
  /\ rc = -1
  /\ log = <<>>

\* runs with -o, one input file and a flat script, for every spelling of
\* the destination suffix
Init ==
  /\ InitRun
  /\ output_ext \in Exts
  /\ out_opts = {"o"}
  /\ inputFiles = 1
  /\ script \in FlatScripts

\* runs with every combination of output options and every script, for the
\* lower-case suffixes
InitScripts ==
  /\ InitRun
  /\ output_ext \in PlainExts
  /\ out_opts \in SUBSET OutputOptions
  /\ inputFiles \in {0, 1}
  /\ script \in Scripts

\* main(): render mode from --render and --preview, then the call of cmdline
RendererOf(render, preview) ==
  IF preview = "throwntogether" THEN "THROWNTOGETHER"
  ELSE IF render THEN "CGAL"
  ELSE "OPENCSG"

\* main(): help() is called when -s or -x finds output_file already set
OutputOptionsConflict_NoXCheck(opts) ==
  "s" \in opts /\ "o" \in opts

OutputOptionsConflict(opts) ==
  \/ "s" \in opts /\ "o" \in opts
  \/ "x" \in opts /\ ("o" \in opts \/ "s" \in opts)

\* main(): "usage" is help(), which exits with status 1; "gui" is the
\* interactive mode; "select" is the start of cmdline
Main ==
  /\ pc = "main"
  /\ renderer' = RendererOf(opt_render, opt_preview)
  /\ IF OutputOptionsConflict(out_opts) THEN pc' = "usage"
     ELSE IF out_opts # {}
       THEN pc' = (IF inputFiles = 0 THEN "usage" ELSE "select")
       ELSE \E display \in BOOLEAN : pc' = (IF display THEN "gui" ELSE "usage")
  /\ UNCHANGED <<inputs, heap, suffix, slot, cwd, root_geom, rc, log>>

\* cmdline(): the chain of suffix comparisons
SelectSlot(sfx) ==
  CASE sfx = SuffixOf["stl"]  -> "stl"
    [] sfx = SuffixOf["off"]  -> "off"
    [] sfx = SuffixOf["amf"]  -> "amf"
    [] sfx = SuffixOf["dxf"]  -> "dxf"
    [] sfx = SuffixOf["svg"]  -> "svg"
    [] sfx = SuffixOf["csg"]  -> "csg"
    [] sfx = SuffixOf["png"]  -> "png"
    [] sfx = SuffixOf["ast"]  -> "ast"
    [] sfx = SuffixOf["term"] -> "term"
    [] sfx = SuffixOf["echo"] -> "echo"
    [] OTHER -> "unknown"

SelectFormat_FallThrough ==
  /\ pc = "select"
  /\ suffix' = to_lower(output_ext)
  /\ slot' = [f \in Formats |-> f = SelectSlot(suffix')]
  /\ pc' = "echostream"
  /\ UNCHANGED <<inputs, heap, renderer, cwd, root_geom, rc, log>>

SelectFormat ==
  /\ pc = "select"
  /\ suffix' = to_lower(output_ext)
  /\ IF SelectSlot(suffix') \in Formats
       THEN /\ slot' = [f \in Formats |-> f = SelectSlot(suffix')]
            /\ pc' = "echostream"
            /\ rc' = rc
       ELSE /\ slot' = slot
            /\ Return(1)
  /\ UNCHANGED <<inputs, heap, renderer, cwd, root_geom, log>>

\* the Echostream is constructed on the destination; its state is not tested
OpenEcho ==
  /\ pc = "echostream"
  /\ IF echo_output_file
       THEN \E ok \in BOOLEAN : log' = Append(log, Ev("open_echo", cwd, ok))
       ELSE log' = log
  /\ pc' = "load"
  /\ UNCHANGED <<inputs, heap, renderer, suffix, slot, cwd, root_geom, rc>>

\* handle_dep, std::ifstream ifs(filename)
LoadInput ==
  /\ pc = "load"
  /\ \E ok \in BOOLEAN :
       /\ log' = Append(log, Ev("open_input", cwd, ok))
       /\ IF ok THEN pc' = "parse" /\ rc' = rc
                ELSE Return(1)
  /\ UNCHANGED <<inputs, heap, renderer, suffix, slot, cwd, root_geom>>

\* parse(text, parentpath, false), handleDependencies
Parse_NoReturn ==
  /\ pc = "parse"
  /\ \E ok \in BOOLEAN : log' = Append(log, Ev("parse", cwd, ok))
  /\ pc' = "enter"
  /\ UNCHANGED <<inputs, heap, renderer, suffix, slot, cwd, root_geom, rc>>

Parse ==
  /\ pc = "parse"
  /\ \E ok \in BOOLEAN :
       /\ log' = Append(log, Ev("parse", cwd, ok))
       /\ IF ok THEN pc' = "enter" /\ rc' = rc
                ELSE Return(1)
  /\ UNCHANGED <<inputs, heap, renderer, suffix, slot, cwd, root_geom>>

\* fs::current_path(fparent)
EnterDocumentDir ==
  /\ pc = "enter"
  /\ cwd' = fparent
  /\ pc' = "instantiate"
  /\ UNCHANGED <<inputs, heap, renderer, suffix, slot, root_geom, rc, log>>

\* resetIndexCounter, instantiate
Instantiate_ResetAfter ==
  /\ pc = "instantiate"
  /\ log' = log \o << EvN("instantiate", cwd, TRUE, 1),
                      Ev("resetIndexCounter", cwd, TRUE) >>
  /\ absolute_root_node' = 1
  /\ pc' = "root"
  /\ UNCHANGED <<inputs, root_node, tree_root, freed, renderer, suffix, slot,
                 cwd, root_geom, rc>>

Instantiate ==
  /\ pc = "instantiate"
  /\ log' = log \o << Ev("resetIndexCounter", cwd, TRUE),
                      EvN("instantiate", cwd, TRUE, 1) >>
  /\ absolute_root_node' = 1
  /\ pc' = "root"
  /\ UNCHANGED <<inputs, root_node, tree_root, freed, renderer, suffix, slot,
                 cwd, root_geom, rc>>

\* find_root_tag, tree.setRoot; ok records that an explicit root was found
ResolveRoot_IgnoreTag ==
  /\ pc = "root"
  /\ LET found == find_root_tag(script, absolute_root_node)
     IN  /\ root_node' = absolute_root_node
         /\ tree_root' = absolute_root_node
         /\ log' = log \o << EvN("find_root_tag", cwd, found # 0, found),
                              EvN("setRoot", cwd, TRUE, absolute_root_node) >>
  /\ pc' = "dispatch"
  /\ UNCHANGED <<inputs, absolute_root_node, freed, renderer, suffix, slot,
                 cwd, root_geom, rc>>

ResolveRoot ==
  /\ pc = "root"
  /\ LET found == find_root_tag(script, absolute_root_node)
         chosen == IF found = 0 THEN absolute_root_node ELSE found
     IN  /\ root_node' = chosen
         /\ tree_root' = chosen
         /\ log' = log \o << EvN("find_root_tag", cwd, found # 0, found),
                              EvN("setRoot", cwd, TRUE, chosen) >>
  /\ pc' = "dispatch"
  /\ UNCHANGED <<inputs, absolute_root_node, freed, renderer, suffix, slot,
                 cwd, root_geom, rc>>

\* if (csg_output_file) { ... }
CsgExport_NoRestore ==
  /\ pc = "dispatch"
  /\ csg_output_file
  /\ \E ok \in BOOLEAN :
       IF ok
         THEN /\ log' = log \o << Ev("open_csg", cwd, TRUE),
                                  EvN("getString", fparent, TRUE, root_node) >>
              /\ cwd' = fparent
         ELSE /\ log' = Append(log, Ev("open_csg", cwd, FALSE))
              /\ cwd' = cwd
  /\ pc' = "cleanup"
  /\ UNCHANGED <<inputs, heap, renderer, suffix, slot, root_geom, rc>>

CsgExport ==
  /\ pc = "dispatch"
  /\ csg_output_file
  /\ \E ok \in BOOLEAN :
       IF ok
         THEN /\ log' = log \o << Ev("open_csg", original_path, TRUE),
                                  EvN("getString", fparent, TRUE, root_node) >>
              /\ cwd' = fparent
         ELSE /\ log' = Append(log, Ev("open_csg", original_path, FALSE))
              /\ cwd' = original_path
  /\ pc' = "cleanup"
  /\ UNCHANGED <<inputs, heap, renderer, suffix, slot, root_geom, rc>>

\* else if (ast_output_file) { ... }
AstExport ==
  /\ pc = "dispatch"
  /\ ~csg_output_file
  /\ ast_output_file
  /\ \E ok \in BOOLEAN :
       IF ok
         THEN /\ log' = log \o << Ev("open_ast", original_path, TRUE),
                                  Ev("dump_module", fparent, TRUE) >>
              /\ cwd' = fparent
         ELSE /\ log' = Append(log, Ev("open_ast", original_path, FALSE))
              /\ cwd' = original_path
  /\ pc' = "cleanup"
  /\ UNCHANGED <<inputs, heap, renderer, suffix, slot, root_geom, rc>>

\* else if (term_output_file) { ... }; the ok of evaluateCSGTerm records a
\* non-null root_raw_term
TermExport_EmptyIsError ==
  /\ pc = "dispatch"
  /\ ~csg_output_file
  /\ ~ast_output_file
  /\ term_output_file
  /\ \E term \in BOOLEAN, ok \in BOOLEAN :
       IF ~term
         THEN /\ log' = Append(log, EvN("evaluateCSGTerm", cwd, term, root_node))
              /\ cwd' = cwd
              /\ Return(1)
         ELSE /\ log' = log \o << EvN("evaluateCSGTerm", cwd, term, root_node),
                                  Ev("open_term", original_path, ok) >>
                            \o (IF ~ok THEN << >>
                                ELSE << Ev("write_term", original_path, TRUE) >>)
              /\ cwd' = original_path
              /\ pc' = "cleanup"
              /\ rc' = rc
  /\ UNCHANGED <<inputs, heap, renderer, suffix, slot, root_geom>>

TermExport ==
  /\ pc = "dispatch"
  /\ ~csg_output_file
  /\ ~ast_output_file
  /\ term_output_file
  /\ \E term \in BOOLEAN, ok \in BOOLEAN :
       log' = log \o << EvN("evaluateCSGTerm", cwd, term, root_node),
                        Ev("open_term", original_path, ok) >>
                  \o (IF ~ok THEN << >>
                      ELSE IF ~term
                        THEN << Ev("write_placeholder", original_path, TRUE) >>
                        ELSE << Ev("write_term", original_path, TRUE) >>)
  /\ cwd' = original_path
  /\ pc' = "cleanup"
  /\ UNCHANGED <<inputs, heap, renderer, suffix, slot, root_geom, rc>>

\* else { ... evaluateGeometry ... }
Geometries == {"null", "dim2", "dim3"}

EvaluateGeometry_NoNullCheck ==
  /\ pc = "dispatch"
  /\ ~csg_output_file
  /\ ~ast_output_file
  /\ ~term_output_file
  /\ IF (echo_output_file \/ png_output_file) /\ ~(renderer = "CGAL")
       THEN /\ root_geom' = root_geom
            /\ log' = log
       ELSE \E g \in Geometries :
              /\ root_geom' = g
              /\ log' = Append(log, EvN("evaluateGeometry", cwd, g # "null", tree_root))
  /\ pc' = "restore"
  /\ UNCHANGED <<inputs, heap, renderer, suffix, slot, cwd, rc>>

EvaluateGeometry_SkipForPng ==
  /\ pc = "dispatch"
  /\ ~csg_output_file
  /\ ~ast_output_file
  /\ ~term_output_file
  /\ IF echo_output_file \/ png_output_file
       THEN /\ root_geom' = root_geom
            /\ log' = log
            /\ pc' = "restore"
            /\ rc' = rc
       ELSE \E g \in Geometries :
              /\ root_geom' = g
              /\ log' = Append(log, EvN("evaluateGeometry", cwd, g # "null", tree_root))
              /\ IF g = "null" THEN Return(1)
                               ELSE pc' = "restore" /\ rc' = rc
  /\ UNCHANGED <<inputs, heap, renderer, suffix, slot, cwd>>

EvaluateGeometry ==
  /\ pc = "dispatch"
  /\ ~csg_output_file
  /\ ~ast_output_file
  /\ ~term_output_file
  /\ IF (echo_output_file \/ png_output_file) /\ ~(renderer = "CGAL")
       THEN /\ root_geom' = root_geom
            /\ log' = log
            /\ pc' = "restore"
            /\ rc' = rc
       ELSE \E g \in Geometries :
              /\ root_geom' = g
              /\ log' = Append(log, EvN("evaluateGeometry", cwd, g # "null", tree_root))
              /\ IF g = "null" THEN Return(1)
                               ELSE pc' = "restore" /\ rc' = rc
  /\ UNCHANGED <<inputs, heap, renderer, suffix, slot, cwd>>

\* fs::current_path(original_path)
RestoreDir ==
  /\ pc = "restore"
  /\ cwd' = original_path
  /\ pc' = "deps"
  /\ UNCHANGED <<inputs, heap, renderer, suffix, slot, root_geom, rc, log>>

\* if (deps_output_file) { ... write_deps ... }
HasGeomOut ==
  \/ stl_output_file
  \/ off_output_file
  \/ amf_output_file
  \/ dxf_output_file
  \/ svg_output_file
  \/ png_output_file

WriteDepsIf(requested) ==
  /\ pc = "deps"
  /\ IF requested
       THEN IF HasGeomOut
              THEN \E result \in BOOLEAN :
                     /\ log' = Append(log, Ev("write_deps", cwd, result))
                     /\ IF result THEN pc' = "export_stl" /\ rc' = rc
                                  ELSE Return(1)
              ELSE /\ log' = log
                   /\ Return(1)
       ELSE /\ log' = log
            /\ pc' = "export_stl"
            /\ rc' = rc
  /\ UNCHANGED <<inputs, heap, renderer, suffix, slot, cwd, root_geom>>

WriteDeps_Always == WriteDepsIf(TRUE)

WriteDeps_IgnoreResult ==
  /\ pc = "deps"
  /\ IF deps_output_file
       THEN IF HasGeomOut
              THEN \E result \in BOOLEAN :
                     /\ log' = Append(log, Ev("write_deps", cwd, result))
                     /\ pc' = "export_stl"
                     /\ rc' = rc
              ELSE /\ log' = log
                   /\ Return(1)
       ELSE /\ log' = log
            /\ pc' = "export_stl"
            /\ rc' = rc
  /\ UNCHANGED <<inputs, heap, renderer, suffix, slot, cwd, root_geom>>

WriteDeps == WriteDepsIf(deps_output_file)

\* Geometry::getDimension
Dimension(g) == IF g = "dim2" THEN 2 ELSE 3

\* checkAndExport(root_geom, nd, format, filename) and the test of its
\* result in cmdline.  A null root_geom is dereferenced: the read of the
\* dimension then either faults or yields an arbitrary value.
CheckAndExport_NoCheck(nd, nextpc) ==
  \E ok \in BOOLEAN :
    /\ log' = log \o << Ev("checkAndExport", cwd, TRUE),
                        Ev("exportFileByName", cwd, ok) >>
    /\ pc' = nextpc
    /\ rc' = rc

CheckAndExport(nd, nextpc) ==
  \E d \in (IF root_geom = "null" THEN {0, 2, 3} ELSE {Dimension(root_geom)}) :
    IF d = 0 /\ root_geom = "null"
      THEN /\ log' = log
           /\ pc' = "crashed"
           /\ rc' = rc
      ELSE IF d # nd
        THEN /\ log' = Append(log, Ev("checkAndExport", cwd, FALSE))
             /\ Return(1)
        ELSE \E ok \in BOOLEAN :
               /\ log' = log \o << Ev("checkAndExport", cwd, TRUE),
                                   Ev("exportFileByName", cwd, ok) >>
               /\ pc' = nextpc
               /\ rc' = rc

ExportStep(here, requested, nd, nextpc) ==
  /\ pc = here
  /\ IF requested
       THEN CheckAndExport(nd, nextpc)
       ELSE /\ log' = log
            /\ pc' = nextpc
            /\ rc' = rc
  /\ UNCHANGED <<inputs, heap, renderer, suffix, slot, cwd, root_geom>>

ExportStl == ExportStep("export_stl", stl_output_file, 3, "export_off")
ExportOff == ExportStep("export_off", off_output_file, 3, "export_amf")
ExportAmf == ExportStep("export_amf", amf_output_file, 3, "export_dxf")
ExportDxf == ExportStep("export_dxf", dxf_output_file, 2, "export_svg")
ExportSvg_WrongSlot == ExportStep("export_svg", dxf_output_file, 2, "png")

ExportSvg == ExportStep("export_svg", svg_output_file, 2, "png")

\* if (png_output_file) { ... }; the ok of export_png records a non-null
\* root_geom
PngExport_Swapped ==
  /\ pc = "png"
  /\ IF png_output_file
       THEN \E ok \in BOOLEAN :
              log' = Append(log, Ev("open_png", cwd, ok))
                       \o (IF ~ok THEN << >>
                           ELSE IF renderer = "CGAL"
                             THEN << Ev("export_png", cwd, root_geom # "null") >>
                           ELSE IF renderer = "THROWNTOGETHER"
                             THEN << EvN("export_png_with_opencsg", cwd, TRUE, tree_root) >>
                           ELSE << EvN("export_png_with_throwntogether", cwd, TRUE, tree_root) >>)
       ELSE log' = log
  /\ pc' = "cleanup"
  /\ UNCHANGED <<inputs, heap, renderer, suffix, slot, cwd, root_geom, rc>>

PngExport ==
  /\ pc = "png"
  /\ IF png_output_file
       THEN \E ok \in BOOLEAN :
              log' = Append(log, Ev("open_png", cwd, ok))
                       \o (IF ~ok THEN << >>
                           ELSE IF renderer = "CGAL"
                             THEN << Ev("export_png", cwd, root_geom # "null") >>
                           ELSE IF renderer = "THROWNTOGETHER"
                             THEN << EvN("export_png_with_throwntogether", cwd, TRUE, tree_root) >>
                           ELSE << EvN("export_png_with_opencsg", cwd, TRUE, tree_root) >>)
       ELSE log' = log
  /\ pc' = "cleanup"
  /\ UNCHANGED <<inputs, heap, renderer, suffix, slot, cwd, root_geom, rc>>

\* delete root_node; return 0;
Cleanup ==
  /\ pc = "cleanup"
  /\ log' = Append(log, EvN("delete_root_node", cwd, TRUE, root_node))
  /\ freed' = freed \cup Subtree(script, root_node)
  /\ Return(0)
  /\ UNCHANGED <<inputs, absolute_root_node, root_node, tree_root, renderer,
                 suffix, slot, cwd, root_geom>>

Next ==
  \/ Main
  \/ SelectFormat
  \/ OpenEcho
  \/ LoadInput
  \/ Parse
  \/ EnterDocumentDir
  \/ Instantiate
  \/ ResolveRoot
  \/ CsgExport
  \/ AstExport
  \/ TermExport
  \/ EvaluateGeometry
  \/ RestoreDir
  \/ WriteDeps
  \/ ExportStl
  \/ ExportOff
  \/ ExportAmf
  \/ ExportDxf
  \/ ExportSvg
  \/ PngExport
  \/ Cleanup

Spec == Init /\ [][Next]_vars

SpecScripts == InitScripts /\ [][Next]_vars

----------------------------------------------------------------------------
(* Vocabulary of the properties *)

\* number of calls of op made so far
Count(op) == Cardinality({ i \in DOMAIN log : log[i].op = op })

Called(op) == \E i \in DOMAIN log : log[i].op = op

Failed(op) == \E i \in DOMAIN log : log[i].op = op /\ ~log[i].ok

\* comparison of two suffixes ignoring case
Fold(c) == IF c \in 97..122 THEN c - 32 ELSE c

EqualsIgnoringCase(a, b) ==
  /\ Len(a) = Len(b)
  /\ \A i \in 1..Len(a) : Fold(a[i]) = Fold(b[i])

\* the destination names format f
Requested(f) == EqualsIgnoringCase(output_ext, SuffixOf[f])

Recognized == \E f \in Formats : Requested(f)

TextFormats == {"csg", "ast", "term", "echo"}
SolidFormats == {"stl", "off", "amf"}
DrawingFormats == {"dxf", "svg"}
ExportFormats == SolidFormats \cup DrawingFormats
DepsFormats == ExportFormats \cup {"png"}

RequiredDim(f) == IF f \in SolidFormats THEN 3 ELSE 2

\* the run produces its output by full evaluation
FullEvalRun ==
  \/ \E f \in ExportFormats : Requested(f)
  \/ Requested("png") /\ pc # "main" /\ renderer = "CGAL"

\* calls that open the destination of the run
DestinationOpens ==
  {"open_csg", "open_ast", "open_term", "open_echo", "open_png", "exportFileByName"}

\* calls that open an output file
OutputOpens == DestinationOpens \cup {"write_deps"}

\* calls that evaluate the content of the script
ScriptEvaluations ==
  {"instantiate", "evaluateCSGTerm", "getString", "evaluateGeometry",
   "export_png_with_opencsg", "export_png_with_throwntogether"}

----------------------------------------------------------------------------
(* Properties *)

\* C1: full geometry evaluation is invoked at most once per run, and never
\* when the requested format is .csg, .ast, .term or .echo, nor for .png in
\* preview or thrown-together mode, whatever the render mode is.
C1_EvaluateGeometryOnlyWhenNeeded ==
  /\ Count("evaluateGeometry") <= 1
  /\ (\E f \in TextFormats : Requested(f)) => ~Called("evaluateGeometry")
  /\ (Requested("png") /\ renderer # "CGAL") => ~Called("evaluateGeometry")

\* C2: when the destination file cannot be opened for writing, the run
\* returns 1, for every output format.
C2_UnwritableOutputFails ==
  (pc = "done" /\ \E op \in DestinationOpens : Failed(op)) => rc = 1

C4_EmptyGeometryFails ==
  (FullEvalRun /\ Failed("evaluateGeometry")) =>
    /\ pc = "done"
    /\ rc = 1
    /\ \A op \in OutputOpens : ~Called(op)

C4_Witness ==
  /\ pc = "done"
  /\ Requested("off")
  /\ deps_output_file
  /\ Failed("evaluateGeometry")
  /\ rc = 1

\* C5: a run with a dependency-output path and a text-dump format (.csg,
\* .ast, .term, .echo) returns 1.
C5_DepsForTextDumpFails ==
  (pc = "done" /\ deps_output_file /\ \E f \in TextFormats : Requested(f))
    => rc = 1

\* C6: write_deps is invoked at most once per run, and only when a
\* dependency-output path was requested and the format is one of .stl, .off,
\* .amf, .dxf, .svg, .png.
C6_WriteDepsOnlyWhenRequested ==
  /\ Count("write_deps") <= 1
  /\ Called("write_deps") =>
       /\ deps_output_file
       /\ \E f \in DepsFormats : Requested(f)

C6_Witness ==
  /\ Count("write_deps") = 1
  /\ Requested("svg")
  /\ pc = "done"
  /\ rc = 0

\* C7: once the format is selected, the slot of format f is set exactly when
\* the suffix equals the suffix of f ignoring case; so exactly one slot is
\* set for a recognized suffix, none for any other, and that stays so for
\* the rest of the run.
C7_FormatSelection ==
  /\ pc \in {"main", "select"} => \A f \in Formats : ~slot[f]
  /\ pc \notin {"main", "select"} =>
       /\ \A f \in Formats : slot[f] <=> Requested(f)
       /\ Cardinality({ f \in Formats : slot[f] }) = (IF Recognized THEN 1 ELSE 0)

\* destination suffix ".TeRm"
C7_Witness ==
  /\ pc = "done"
  /\ output_ext = <<46, 84, 101, 82, 109>>
  /\ term_output_file
  /\ Called("open_term")

\* C8: for an unrecognized suffix the run returns 1 from the selection: no
\* file is opened, the input is not read, parsed or evaluated, and the
\* current directory is not changed.
C8_UnknownSuffixFails ==
  (~Recognized /\ pc \notin {"main", "select"}) =>
    /\ pc = "done"
    /\ rc = 1
    /\ log = << >>
    /\ cwd = original_path

\* destination suffix ".stlx", script in another directory
C8_Witness ==
  /\ pc = "done"
  /\ output_ext = <<46, 115, 116, 108, 120>>
  /\ fparent # original_path
  /\ rc = 1

\* C9: every output file of the run is opened while the current directory
\* is the invoker's original directory.
C9_OutputsOpenedInOriginalDir ==
  \A i \in DOMAIN log :
    log[i].op \in OutputOpens => log[i].cwd = original_path

C9_Witness ==
  /\ fparent # original_path
  /\ Called("open_csg")
  /\ Called("getString")
  /\ cwd = fparent
  /\ pc = "done"

\* C10: every step that evaluates the content of the script runs while the
\* current directory is the parent directory of the script.
C10_EvaluationInDocumentDir ==
  \A i \in DOMAIN log :
    log[i].op \in ScriptEvaluations => log[i].cwd = fparent

----------------------------------------------------------------------------
(* Vocabulary of the properties on the order of calls and on the tree *)

\* every call of b is preceded by a successful call of a
Precedes(a, b) ==
  \A j \in DOMAIN log :
    log[j].op = b => \E i \in 1..(j - 1) : log[i].op = a /\ log[i].ok

Succeeded(op) == \E i \in DOMAIN log : log[i].op = op /\ log[i].ok

\* cmdline has been called
InCmdline == pc \notin {"main", "usage", "gui"}

Tagged == { n \in NodesOf(script) : script.tag[n] }

\* calls that evaluate a node of the tree
NodeEvaluations ==
  {"getString", "evaluateCSGTerm", "evaluateGeometry",
   "export_png_with_opencsg", "export_png_with_throwntogether"}

Rasterizers ==
  {"export_png", "export_png_with_opencsg", "export_png_with_throwntogether"}

RasterizerOf(r) ==
  CASE r = "CGAL" -> "export_png"
    [] r = "OPENCSG" -> "export_png_with_opencsg"
    [] r = "THROWNTOGETHER" -> "export_png_with_throwntogether"

RasterizerCalls == { i \in DOMAIN log : log[i].op \in Rasterizers }

\* the run stopped with status 1 right after loading or parsing
StoppedBeforeInstantiation ==
  /\ pc = "done"
  /\ rc = 1
  /\ ~Called("instantiate")
  /\ absolute_root_node = 0
  /\ root_node = 0
  /\ tree_root = 0
  /\ \A op \in {"find_root_tag", "setRoot"} \cup NodeEvaluations : ~Called(op)
  /\ cwd = original_path
  /\ \A op \in OutputOpens \ {"open_echo"} : ~Called(op)

----------------------------------------------------------------------------
(* Properties, continued *)

\* C11: if the input cannot be opened the run returns 1 without invoking
\* the parser; if the parser fails the run returns 1 without instantiating;
\* in both cases no root is resolved, nothing is evaluated, the directory is
\* not changed and no export or dependency file is written.
C11_LoadAndParseFailures ==
  /\ Failed("open_input") => (~Called("parse") /\ StoppedBeforeInstantiation)
  /\ Failed("parse") => StoppedBeforeInstantiation

C11_Witness ==
  /\ Failed("parse")
  /\ Requested("stl")
  /\ deps_output_file
  /\ fparent # original_path
  /\ pc = "done"

\* C12: once the root is resolved it is the top-level group if no node is
\* tagged and the tagged node if exactly one is; it is the node given to
\* tree.setRoot, and every later evaluation is made on it.
C12_RootResolution ==
  /\ root_node = 0 => \A op \in NodeEvaluations \cup {"setRoot"} : ~Called(op)
  /\ root_node # 0 =>
       /\ Tagged = {} => root_node = absolute_root_node
       /\ Cardinality(Tagged) = 1 => root_node \in Tagged
       /\ tree_root = root_node
       /\ Count("setRoot") = 1
       /\ \A i \in DOMAIN log :
            log[i].op \in NodeEvaluations \cup {"setRoot"} =>
              log[i].node = root_node

\* the tag on a grandchild of the top-level group
C12_Witness ==
  /\ Tagged = {3}
  /\ script.parent[3] = 2
  /\ \E i \in DOMAIN log : log[i].op = "evaluateGeometry" /\ log[i].node = 3
  /\ pc = "done"

\* the run loaded, parsed and evaluated to a geometry of the dimension that
\* the requested solid or drawing format needs
EvaluatedToMatchingGeometry ==
  /\ pc = "done"
  /\ \E f \in ExportFormats :
       /\ Requested(f)
       /\ Succeeded("evaluateGeometry")
       /\ Dimension(root_geom) = RequiredDim(f)

C14_RenderModeAndRasterizer ==
  /\ renderer \in Renderers
  /\ (pc # "main" /\ ~opt_render /\ opt_preview = "none") => renderer = "OPENCSG"
  /\ Cardinality(RasterizerCalls) <= 1
  /\ \A i \in RasterizerCalls :
       /\ Requested("png")
       /\ log[i].op = RasterizerOf(renderer)
       /\ log[i].ok
  /\ (Requested("png") /\ Succeeded("open_png")) =>
       Cardinality(RasterizerCalls) = 1

C14_Witness ==
  /\ opt_render
  /\ opt_preview = "throwntogether"
  /\ Called("export_png_with_throwntogether")
  /\ pc = "done"

\* C15: when more than one of -o, -s, -x is given, main ends in the usage
\* message (exit status 1) and cmdline is never started; so cmdline runs
\* with exactly one output option.
C15_SingleOutputFile ==
  /\ (Cardinality(out_opts) > 1 /\ pc # "main") =>
       /\ pc = "usage"
       /\ log = << >>
       /\ rc = -1
       /\ slot = NoSlot
  /\ InCmdline => Cardinality(out_opts) = 1

C15_Witness ==
  /\ out_opts = {"s", "x"}
  /\ inputFiles = 1
  /\ pc = "usage"

\* C16: whenever cmdline returns after having entered the script's parent
\* directory, the current directory is the invoker's original directory.
C16_DirectoryRestoredOnReturn ==
  (pc = "done" /\ Called("instantiate")) => cwd = original_path

\* C17: whenever cmdline returns after the tree was instantiated, every
\* node of the tree has been freed.
C17_TreeDestroyedOnReturn ==
  (pc = "done" /\ absolute_root_node # 0) => freed = NodesOf(script)

\* C18: in a run that instantiates, the node-index counter is reset exactly
\* once, after the successful parse and before the instantiation.
C18_IndexCounterReset ==
  /\ Count("resetIndexCounter") <= 1
  /\ Precedes("parse", "resetIndexCounter")
  /\ Precedes("resetIndexCounter", "instantiate")
  /\ Called("instantiate") => Count("resetIndexCounter") = 1

C18_Witness ==
  /\ Called("instantiate")
  /\ Count("resetIndexCounter") = 1
  /\ Requested("ast")
  /\ pc = "done"

\* the next step dereferences root_geom
AtGeometryUse ==
  \/ pc = "export_stl" /\ stl_output_file
  \/ pc = "export_off" /\ off_output_file
  \/ pc = "export_amf" /\ amf_output_file
  \/ pc = "export_dxf" /\ dxf_output_file
  \/ pc = "export_svg" /\ svg_output_file
  \/ pc = "png" /\ png_output_file /\ renderer = "CGAL"

\* C19: whenever checkAndExport or export_png is reached, full geometry
\* evaluation has run before and returned a geometry: root_geom is never
\* dereferenced while null.
C19_GeometryNotNullWhenUsed ==
  /\ pc # "crashed"
  /\ AtGeometryUse => (root_geom # "null" /\ Succeeded("evaluateGeometry"))
  /\ Precedes("evaluateGeometry", "checkAndExport")
  /\ Precedes("evaluateGeometry", "export_png")
  /\ (Called("checkAndExport") \/ Called("export_png")) => root_geom # "null"
  /\ ~Failed("export_png")

C19_Witness ==
  /\ Succeeded("export_png")
  /\ root_geom = "dim2"
  /\ pc = "done"

\* C20: with a dependency-output path, write_deps has succeeded before the
\* dimension check and the exporter; a run with a dimension mismatch returns
\* 1 with the dependency file written and no export file; a failure of
\* write_deps returns 1 before any export file is written.
C20_DepsBeforeDimensionCheck ==
  /\ deps_output_file =>
       /\ Precedes("write_deps", "checkAndExport")
       /\ Precedes("write_deps", "exportFileByName")
  /\ (deps_output_file /\ Failed("checkAndExport")) =>
       /\ pc = "done"
       /\ rc = 1
       /\ Succeeded("write_deps")
       /\ ~Called("exportFileByName")
  /\ Failed("write_deps") =>
       /\ pc = "done"
       /\ rc = 1
       /\ \A op \in {"checkAndExport", "exportFileByName", "open_png"} : ~Called(op)

C20_Witness ==
  /\ deps_output_file
  /\ Requested("stl")
  /\ root_geom = "dim2"
  /\ Failed("checkAndExport")
  /\ Succeeded("write_deps")
  /\ pc = "done"

\* C21: an empty result is an error only of the full evaluation: a .term run
\* whose term evaluation yields no top-level term and whose destination
\* opens writes the placeholder line instead of a term dump and returns 0,
\* whereas a full geometry evaluation without result makes the run return 1.
C21_EmptyTermIsNotAnError ==
  /\ (Requested("term") /\ Failed("evaluateCSGTerm") /\ Succeeded("open_term")) =>
       /\ Count("write_placeholder") = 1
       /\ ~Called("write_term")
       /\ pc \in {"cleanup", "done"}
       /\ pc = "done" => rc = 0
  /\ Called("write_placeholder") =>
       (Requested("term") /\ Failed("evaluateCSGTerm"))
  /\ Failed("evaluateCSGTerm") => Called("open_term")
  /\ Failed("evaluateGeometry") => (pc = "done" /\ rc = 1)

C21_Witness ==
  /\ Requested("term")
  /\ Failed("evaluateCSGTerm")
  /\ Succeeded("open_term")
  /\ Called("write_placeholder")
  /\ pc = "done"
  /\ rc = 0
====
